---- MODULE Spec2Model ----
(***************************************************************************)
(* Model of rtl_spectrum_wallpaper.py: the capture launcher, the sweep     *)
(* reader, the renderer's pure functions, the wallpaper publisher, the     *)
(* loop driver and the signal handler.                                     *)
(*                                                                         *)
(* Text is a sequence of one-character strings.  Numbers that Python       *)
(* holds as floats are exact rationals here: a pair <<n, d>> with d > 0    *)
(* stands for n/d, and the readings themselves are integers.               *)
(***************************************************************************)
EXTENDS Integers, Sequences, FiniteSets, TLC

(* ---------------- bounds of the model ---------------- *)
MaxFields == 8        \* longest last line, in comma-separated fields
MaxRows == 2          \* rows the capture process appends
MaxSignals == 2       \* SIGINT/SIGTERM deliveries
MaxReadings == 3      \* longest reading list given to normalize_db_values
MaxDb == 2            \* readings range over -MaxDb..MaxDb
GridScale == 200      \* gradient inputs are k/(10*GridScale)

(* ---------------- configuration ---------------- *)
UPDATE_INTERVAL == 5
WALLPAPER_PATH == "/home/user/.rtl_spectrum_wallpaper.png"
BARS_STYLE == TRUE

(* ---------------- text helpers ---------------- *)
Whitespace == {"\n", " "}
DigitChars == {"0", "1", "2", "3", "4", "5", "6", "7", "8", "9"}

DigitVal(c) ==
    CASE c = "0" -> 0 [] c = "1" -> 1 [] c = "2" -> 2 [] c = "3" -> 3
      [] c = "4" -> 4 [] c = "5" -> 5 [] c = "6" -> 6 [] c = "7" -> 7
      [] c = "8" -> 8 [] c = "9" -> 9

IndexOf(s, c) ==
    IF \E i \in 1..Len(s) : s[i] = c
    THEN CHOOSE i \in 1..Len(s) : s[i] = c /\ \A j \in 1..(i - 1) : s[j] # c
    ELSE 0

RECURSIVE ReadLines(_)
\* f.readlines(): the lines of the file, each keeping its newline
ReadLines(content) ==
    IF content = <<>> THEN <<>>
    ELSE LET i == IndexOf(content, "\n") IN
         IF i = 0 THEN <<content>>
         ELSE <<SubSeq(content, 1, i)>> \o ReadLines(SubSeq(content, i + 1, Len(content)))

RECURSIVE Strip(_)
\* str.strip(): leading and trailing whitespace removed
Strip(s) ==
    IF s = <<>> THEN s
    ELSE IF s[1] \in Whitespace THEN Strip(Tail(s))
    ELSE IF s[Len(s)] \in Whitespace THEN Strip(SubSeq(s, 1, Len(s) - 1))
    ELSE s

RECURSIVE Split(_)
\* str.split(','): always at least one field, empty fields kept
Split(s) ==
    LET i == IndexOf(s, ",") IN
    IF i = 0 THEN <<s>>
    ELSE <<SubSeq(s, 1, i - 1)>> \o Split(SubSeq(s, i + 1, Len(s)))

\* float(x) accepts x: over the model's alphabet, an optional sign and
\* at least one digit
IsFloat(x) ==
    LET body == IF x # <<>> /\ x[1] \in {"-", "+"} THEN Tail(x) ELSE x IN
    /\ body # <<>>
    /\ \A i \in 1..Len(body) : body[i] \in DigitChars

RECURSIVE DigitsVal(_)
DigitsVal(b) ==
    IF b = <<>> THEN 0
    ELSE 10 * DigitsVal(SubSeq(b, 1, Len(b) - 1)) + DigitVal(b[Len(b)])

\* float(x) for an accepted x
ToFloat(x) ==
    IF x[1] = "-" THEN 0 - DigitsVal(Tail(x))
    ELSE IF x[1] = "+" THEN DigitsVal(Tail(x))
    ELSE DigitsVal(x)

(* ---------------- sweep reader ---------------- *)
\* The "no data" value and a parsed sweep, as records of one shape
None == [present |-> FALSE, freq_low |-> 0, freq_high |-> 0, db_values |-> <<>>]

Sweep(lo, hi, dbs) ==
    [present |-> TRUE, freq_low |-> lo, freq_high |-> hi, db_values |-> dbs]

Returned(v) == [raised |-> FALSE, exc |-> "", value |-> v]

Raised(e) == [raised |-> TRUE, exc |-> e, value |-> None]

\* parts[5:] in place of parts[6:]
PartsFrom6_OffByOne(parts) == SubSeq(parts, 6, Len(parts))

\* parts[6:]
PartsFrom6(parts) == SubSeq(parts, 7, Len(parts))

\* lines[-1].strip().split(',') of a non-empty file
LastParts(content) ==
    LET lines == ReadLines(content) IN Split(Strip(lines[Len(lines)]))

\* The body of read_spectrum_data once the file is open (lines 89-108):
\* either a returned value or a raised exception.
parse_lines(content) ==
    IF ReadLines(content) = <<>> THEN Returned(None)
    ELSE LET parts == LastParts(content) IN
         IF Len(parts) < 6 THEN Returned(None)
         ELSE IF ~IsFloat(parts[3]) \/ ~IsFloat(parts[4])
                 \/ \E i \in 1..Len(PartsFrom6(parts)) : ~IsFloat(PartsFrom6(parts)[i])
              THEN Raised("ValueError")
              ELSE Returned(Sweep(ToFloat(parts[3]), ToFloat(parts[4]),
                                  [i \in 1..Len(PartsFrom6(parts)) |->
                                      ToFloat(PartsFrom6(parts)[i])]))

\* No except clause: what the body raises escapes
CatchException_Propagate(r) == r

\* The except clause of read_spectrum_data (lines 109-111)
CatchException(r) == IF r.raised THEN Returned(None) ELSE r

\* read_spectrum_data after os.path.exists returned True: open the file
\* (FileNotFoundError when it is gone by now), parse, catch everything.
read_spectrum_data(existsAtOpen, content) ==
    CatchException(IF ~existsAtOpen THEN Raised("FileNotFoundError")
                   ELSE parse_lines(content))

(* ---------------- renderer: pure functions ---------------- *)
MinOf(s) == CHOOSE m \in {s[i] : i \in 1..Len(s)} : \A j \in 1..Len(s) : m <= s[j]

MaxOf(s) == CHOOSE m \in {s[i] : i \in 1..Len(s)} : \A j \in 1..Len(s) : m >= s[j]

\* normalize_db_values without the max_db == min_db test: 0/0 for equal readings
normalize_db_values_NoGuard(db_values) ==
    IF db_values = <<>> THEN <<>>
    ELSE [i \in 1..Len(db_values) |->
             <<db_values[i] - MinOf(db_values), MaxOf(db_values) - MinOf(db_values)>>]

\* normalize_db_values: the result is a sequence of rationals <<n, d>>
normalize_db_values(db_values) ==
    IF db_values = <<>> THEN <<>>
    ELSE LET min_db == MinOf(db_values)
             max_db == MaxOf(db_values) IN
         IF max_db = min_db THEN [i \in 1..Len(db_values) |-> <<1, 2>>]
         ELSE [i \in 1..Len(db_values) |-> <<db_values[i] - min_db, max_db - min_db>>]

\* int(n/d) for d > 0: truncation toward zero
IntOf(n, d) == IF n >= 0 THEN n \div d ELSE 0 - ((0 - n) \div d)

\* spectrum_color_gradient with t in place of (1-t) in the last segment
spectrum_color_gradient_PeakT(v) ==
    LET n == v[1]
        d == v[2] IN
    IF 10 * n < 3 * d THEN <<0, 0, IntOf(2550 * n, 3 * d)>>
    ELSE IF 10 * n < 6 * d
         THEN <<0, IntOf(255 * (10 * n - 3 * d), 3 * d), IntOf(255 * (6 * d - 10 * n), 3 * d)>>
    ELSE IF 10 * n < 8 * d
         THEN <<IntOf(255 * (10 * n - 6 * d), 2 * d), 255, 0>>
    ELSE <<255, IntOf(255 * (10 * n - 8 * d), 2 * d), 0>>

\* spectrum_color_gradient at value = v[1]/v[2]; 0.3, 0.6, 0.8 and 0.2 are
\* the exact decimals 3/10, 6/10, 8/10 and 2/10
spectrum_color_gradient(v) ==
    LET n == v[1]
        d == v[2] IN
    IF 10 * n < 3 * d THEN <<0, 0, IntOf(2550 * n, 3 * d)>>
    ELSE IF 10 * n < 6 * d
         THEN <<0, IntOf(255 * (10 * n - 3 * d), 3 * d), IntOf(255 * (6 * d - 10 * n), 3 * d)>>
    ELSE IF 10 * n < 8 * d
         THEN <<IntOf(255 * (10 * n - 6 * d), 2 * d), 255, 0>>
    ELSE <<255, IntOf(255 * (10 * d - 10 * n), 2 * d), 0>>

(* ---------------- state ---------------- *)
VARIABLES
    pc,                 \* control point of the main thread
    rtl_power_process,  \* module-level handle: "None" or "proc"
    procState,          \* capture process: "none", "running", "reaped"
    csvExists,          \* /tmp/rtl_spectrum.csv exists
    csvContent,         \* its content
    rowsWritten,        \* complete rows the capture process has appended
    spectrum_data,      \* main's local variable
    readView,           \* what the last read observed of the file
    img,                \* the frame being rendered
    savedFrame,         \* the file at WALLPAPER_PATH
    pubLog,             \* gsettings invocations of the current tick
    sleeps,             \* durations slept since the last read began
    running,            \* the loop has begun its first iteration
    signals,            \* signals delivered so far
    exitCause,          \* "none", "signal", "error"
    exitStatus,         \* process exit status, -1 while alive
    normIn, normOut,    \* normalize_db_values: argument and result
    gradIn, gradOut     \* spectrum_color_gradient: argument and result

mainVars == <<pc, rtl_power_process, procState, csvExists, csvContent, rowsWritten,
              spectrum_data, readView, img, savedFrame, pubLog, sleeps, running,
              signals, exitCause, exitStatus>>

fnVars == <<normIn, normOut, gradIn, gradOut>>

vars == <<mainVars, fnVars>>

INITIAL_DELAY == 5
NoProcess == "None"
NoFrame == [kind |-> "none", bars |-> <<>>]
NoView == [seen |-> "nothing", line |-> <<>>]
NoColor == <<0 - 1, 0 - 1, 0 - 1>>

\* Rows the capture tool appends: date, time, low, high, step, samples, dB...
RowA == <<"d", ",", "t", ",", "1", ",", "2", ",", "s", ",", "n", ",", "-", "1", "2", ",", "-", "2", "\n">>

RowB == <<"d", ",", "t", ",", "1", ",", "2", ",", "s", ",", "n", ",", "-", "2", ",", "1", "\n">>

CaptureRow(k) == IF k % 2 = 1 THEN RowA ELSE RowB

\* file:// URI built by set_gnome_wallpaper
FileUri(abs_path) == "file://" \o abs_path

\* The last line of a non-empty file, as read
LastLine(content) == LET lines == ReadLines(content) IN lines[Len(lines)]

(* ---------------- startup: main and start_rtl_power ---------------- *)
Exit(cause, status) ==
    /\ pc' = "exited"
    /\ exitCause' = cause
    /\ exitStatus' = status

\* os.path.exists(csv_path) at line 59
StartExists ==
    /\ pc = "start_exists"
    /\ pc' = IF csvExists THEN "start_remove" ELSE "popen"
    /\ UNCHANGED <<rtl_power_process, procState, csvExists, csvContent, rowsWritten,
                   spectrum_data, readView, img, savedFrame, pubLog, sleeps, running,
                   signals, exitCause, exitStatus, fnVars>>

\* os.remove(csv_path) at line 60: an OSError is not caught anywhere
StartRemove ==
    /\ pc = "start_remove"
    /\ \E ok \in BOOLEAN :
         IF ok
         THEN /\ csvExists' = FALSE
              /\ csvContent' = <<>>
              /\ pc' = "popen"
              /\ UNCHANGED <<exitCause, exitStatus>>
         ELSE /\ Exit("error", 1)
              /\ UNCHANGED <<csvExists, csvContent>>
    /\ UNCHANGED <<rtl_power_process, procState, rowsWritten, spectrum_data, readView,
                   img, savedFrame, pubLog, sleeps, running, signals, fnVars>>

\* subprocess.Popen at lines 72-77: FileNotFoundError when rtl_power is
\* not installed, not caught anywhere
StartPopen ==
    /\ pc = "popen"
    /\ \E ok \in BOOLEAN :
         IF ok
         THEN /\ procState' = "running"
              /\ pc' = "assign"
              /\ UNCHANGED <<exitCause, exitStatus>>
         ELSE /\ Exit("error", 1)
              /\ UNCHANGED procState
    /\ UNCHANGED <<rtl_power_process, csvExists, csvContent, rowsWritten, spectrum_data,
                   readView, img, savedFrame, pubLog, sleeps, running, signals, fnVars>>

\* return at line 79 and the assignment to the global at line 283
AssignHandle ==
    /\ pc = "assign"
    /\ rtl_power_process' = "proc"
    /\ pc' = "initial_sleep"
    /\ UNCHANGED <<procState, csvExists, csvContent, rowsWritten, spectrum_data, readView,
                   img, savedFrame, pubLog, sleeps, running, signals, exitCause,
                   exitStatus, fnVars>>

\* time.sleep(5) at line 287
InitialSleep ==
    /\ pc = "initial_sleep"
    /\ sleeps' = Append(sleeps, INITIAL_DELAY)
    /\ pc' = "read_exists"
    /\ UNCHANGED <<rtl_power_process, procState, csvExists, csvContent, rowsWritten,
                   spectrum_data, readView, img, savedFrame, pubLog, running, signals,
                   exitCause, exitStatus, fnVars>>

(* ---------------- the capture process ---------------- *)
\* rtl_power creates the output file and appends rows to it, a piece at a
\* time, with no synchronisation with the reader
CaptureWrite ==
    /\ procState = "running"
    /\ rowsWritten < MaxRows
    /\ LET row == CaptureRow(rowsWritten + 1)
           done == IF ~csvExists \/ csvContent = <<>> THEN 0
                   ELSE IF csvContent[Len(csvContent)] = "\n" THEN 0
                   ELSE Len(LastLine(csvContent)) IN
       /\ csvExists' = TRUE
       /\ csvContent' = (IF csvExists THEN csvContent ELSE <<>>) \o <<row[done + 1]>>
       /\ rowsWritten' = IF done + 1 = Len(row) THEN rowsWritten + 1 ELSE rowsWritten
    /\ UNCHANGED <<pc, rtl_power_process, procState, spectrum_data, readView, img,
                   savedFrame, pubLog, sleeps, running, signals, exitCause, exitStatus,
                   fnVars>>

(* ---------------- one tick of the loop ---------------- *)
\* line 293 up to os.path.exists at line 84
ReadExists ==
    /\ pc = "read_exists"
    /\ running' = TRUE
    /\ sleeps' = <<>>
    /\ pubLog' = <<>>
    /\ IF csvExists
       THEN /\ pc' = "read_open"
            /\ UNCHANGED <<spectrum_data, readView>>
       ELSE /\ pc' = "render"
            /\ spectrum_data' = None
            /\ readView' = [seen |-> "absent", line |-> <<>>]
    /\ UNCHANGED <<rtl_power_process, procState, csvExists, csvContent, rowsWritten, img,
                   savedFrame, signals, exitCause, exitStatus, fnVars>>

\* lines 88-111, and the except clause of main for what escapes
ReadOpen ==
    /\ pc = "read_open"
    /\ LET r == read_spectrum_data(csvExists, csvContent) IN
       /\ pc' = IF r.raised THEN "sleep_err" ELSE "render"
       /\ spectrum_data' = IF r.raised THEN spectrum_data ELSE r.value
    /\ readView' = IF ~csvExists THEN [seen |-> "vanished", line |-> <<>>]
                   ELSE IF csvContent = <<>> THEN [seen |-> "empty", line |-> <<>>]
                   ELSE [seen |-> "read", line |-> LastLine(csvContent)]
    /\ UNCHANGED <<rtl_power_process, procState, csvExists, csvContent, rowsWritten, img,
                   savedFrame, pubLog, sleeps, running, signals, exitCause, exitStatus,
                   fnVars>>

\* The bars of the data frame (lines 151, 171-182)
Bars(db_values) ==
    LET normalized == normalize_db_values(db_values) IN
    [i \in 1..Len(normalized) |->
        [height |-> normalized[i], color |-> spectrum_color_gradient(normalized[i])]]

\* create_spectrum_image up to the first font lookup (lines 129-132,
\* 144-182); any exception goes to the except clause of main
Render ==
    /\ pc = "render"
    /\ \E ok \in BOOLEAN :
         IF ~ok
         THEN /\ pc' = "sleep_err"
              /\ UNCHANGED img
         ELSE IF ~spectrum_data.present
         THEN /\ pc' = "font_wait"
              /\ img' = [kind |-> "background", bars |-> <<>>]
         ELSE IF spectrum_data.db_values = <<>>
         THEN /\ pc' = "save"
              /\ img' = [kind |-> "background", bars |-> <<>>]
         ELSE /\ pc' = "font_labels"
              /\ img' = [kind |-> "bars", bars |-> Bars(spectrum_data.db_values)]
    /\ UNCHANGED <<rtl_power_process, procState, csvExists, csvContent, rowsWritten,
                   spectrum_data, readView, savedFrame, pubLog, sleeps, running, signals,
                   exitCause, exitStatus, fnVars>>

\* Where control continues after the try statement whose bare except
\* clause encloses the control point (lines 134-137, 200-205)
AfterFont(p) == IF p = "font_wait" THEN "draw_wait" ELSE "draw_labels"

BareExceptPcs == {"font_wait", "font_labels"}

\* ImageFont.truetype inside try/except: at lines 134-137 or 200-205;
\* whether it succeeds or raises, control reaches the drawing code
LoadFont ==
    /\ pc \in BareExceptPcs
    /\ pc' = AfterFont(pc)
    /\ UNCHANGED <<rtl_power_process, procState, csvExists, csvContent, rowsWritten,
                   spectrum_data, readView, img, savedFrame, pubLog, sleeps, running,
                   signals, exitCause, exitStatus, fnVars>>

\* draw.text of the waiting message (lines 139-142) or of the title, the
\* labels and the timestamp (lines 207-222)
DrawText ==
    /\ pc \in {"draw_wait", "draw_labels"}
    /\ \E ok \in BOOLEAN :
         IF ok
         THEN /\ img' = [img EXCEPT !.kind = IF pc = "draw_wait" THEN "waiting"
                                              ELSE "spectrum"]
              /\ pc' = "save"
         ELSE /\ pc' = "sleep_err"
              /\ UNCHANGED img
    /\ UNCHANGED <<rtl_power_process, procState, csvExists, csvContent, rowsWritten,
                   spectrum_data, readView, savedFrame, pubLog, sleeps, running, signals,
                   exitCause, exitStatus, fnVars>>

\* img.save(WALLPAPER_PATH, 'PNG') at line 299
Save ==
    /\ pc = "save"
    /\ \E ok \in BOOLEAN :
         IF ok
         THEN /\ savedFrame' = img
              /\ pc' = "pub_light"
         ELSE /\ pc' = "sleep_err"
              /\ UNCHANGED savedFrame
    /\ UNCHANGED <<rtl_power_process, procState, csvExists, csvContent, rowsWritten,
                   spectrum_data, readView, img, pubLog, sleeps, running, signals,
                   exitCause, exitStatus, fnVars>>

GsettingsCall(key, path, ok) == [key |-> key, uri |-> FileUri(path), ok |-> ok]

\* first subprocess.run without check=True: a failure does not raise
PublishLight_NoCheck ==
    /\ pc = "pub_light"
    /\ \E ok \in BOOLEAN :
         /\ pubLog' = Append(pubLog, [key |-> "picture-uri",
                                      uri |-> "file://" \o WALLPAPER_PATH, ok |-> ok])
         /\ pc' = "pub_dark"
    /\ UNCHANGED <<rtl_power_process, procState, csvExists, csvContent, rowsWritten,
                   spectrum_data, readView, img, savedFrame, sleeps, running, signals,
                   exitCause, exitStatus, fnVars>>

\* set_gnome_wallpaper, first subprocess.run (lines 247-254); check=True
\* raises on failure and the except clause at 264-266 returns False
PublishLight ==
    /\ pc = "pub_light"
    /\ \E ok \in BOOLEAN :
         /\ pubLog' = Append(pubLog, GsettingsCall("picture-uri", WALLPAPER_PATH, ok))
         /\ pc' = IF ok THEN "pub_dark" ELSE "sleep_ok"
    /\ UNCHANGED <<rtl_power_process, procState, csvExists, csvContent, rowsWritten,
                   spectrum_data, readView, img, savedFrame, sleeps, running, signals,
                   exitCause, exitStatus, fnVars>>

\* set_gnome_wallpaper, second subprocess.run (lines 257-266)
PublishDark ==
    /\ pc = "pub_dark"
    /\ \E ok \in BOOLEAN :
         /\ pubLog' = Append(pubLog, GsettingsCall("picture-uri-dark", WALLPAPER_PATH, ok))
         /\ pc' = "sleep_ok"
    /\ UNCHANGED <<rtl_power_process, procState, csvExists, csvContent, rowsWritten,
                   spectrum_data, readView, img, savedFrame, sleeps, running, signals,
                   exitCause, exitStatus, fnVars>>

\* time.sleep(UPDATE_INTERVAL) at line 305
SleepOk ==
    /\ pc = "sleep_ok"
    /\ sleeps' = Append(sleeps, UPDATE_INTERVAL)
    /\ pc' = "read_exists"
    /\ UNCHANGED <<rtl_power_process, procState, csvExists, csvContent, rowsWritten,
                   spectrum_data, readView, img, savedFrame, pubLog, running, signals,
                   exitCause, exitStatus, fnVars>>

\* an except clause of main that retries at once
SleepErr_NoSleep ==
    /\ pc = "sleep_err"
    /\ pc' = "read_exists"
    /\ UNCHANGED <<rtl_power_process, procState, csvExists, csvContent, rowsWritten,
                   spectrum_data, readView, img, savedFrame, pubLog, sleeps, running,
                   signals, exitCause, exitStatus, fnVars>>

\* the except clause of main: time.sleep(UPDATE_INTERVAL) at line 309
SleepErr ==
    /\ pc = "sleep_err"
    /\ sleeps' = Append(sleeps, UPDATE_INTERVAL)
    /\ pc' = "read_exists"
    /\ UNCHANGED <<rtl_power_process, procState, csvExists, csvContent, rowsWritten,
                   spectrum_data, readView, img, savedFrame, pubLog, running, signals,
                   exitCause, exitStatus, fnVars>>

(* ---------------- signal handler ---------------- *)
\* signal_handler (lines 42-48) runs in the main thread at the current
\* control point; sys.exit(0) raises SystemExit there.  `except Exception`
\* lets it through, a bare `except:` catches it.
Signal ==
    /\ pc # "exited"
    /\ signals < MaxSignals
    /\ signals' = signals + 1
    /\ procState' = IF rtl_power_process # NoProcess THEN "reaped" ELSE procState
    /\ IF pc \in BareExceptPcs
       THEN /\ pc' = AfterFont(pc)
            /\ UNCHANGED <<exitCause, exitStatus>>
       ELSE Exit("signal", 0)
    /\ UNCHANGED <<rtl_power_process, csvExists, csvContent, rowsWritten, spectrum_data,
                   readView, img, savedFrame, pubLog, sleeps, running, fnVars>>

(* ---------------- the program ---------------- *)
StaleContent == RowB

FnIdle ==
    /\ normIn = <<>>
    /\ normOut = <<>>
    /\ gradIn = <<0, 1>>
    /\ gradOut = NoColor

Init ==
    /\ pc = "start_exists"
    /\ rtl_power_process = NoProcess
    /\ procState = "none"
    /\ csvExists \in BOOLEAN
    /\ csvContent = IF csvExists THEN StaleContent ELSE <<>>
    /\ rowsWritten = 0
    /\ spectrum_data = None
    /\ readView = NoView
    /\ img = NoFrame
    /\ savedFrame = NoFrame
    /\ pubLog = <<>>
    /\ sleeps = <<>>
    /\ running = FALSE
    /\ signals = 0
    /\ exitCause = "none"
    /\ exitStatus = 0 - 1
    /\ FnIdle

Next ==
    \/ StartExists
    \/ StartRemove
    \/ StartPopen
    \/ AssignHandle
    \/ InitialSleep
    \/ CaptureWrite
    \/ ReadExists
    \/ ReadOpen
    \/ Render
    \/ LoadFont
    \/ DrawText
    \/ Save
    \/ PublishLight
    \/ PublishDark
    \/ SleepOk
    \/ SleepErr
    \/ Signal

Spec == Init /\ [][Next]_vars

(* ---------------- the reader on any file ---------------- *)
\* Something else deletes the shared file while a read is under way
ExternalRemove ==
    /\ pc \in {"read_exists", "read_open"}
    /\ csvExists
    /\ csvExists' = FALSE
    /\ csvContent' = <<>>
    /\ UNCHANGED <<pc, rtl_power_process, procState, rowsWritten, spectrum_data, readView,
                   img, savedFrame, pubLog, sleeps, running, signals, exitCause,
                   exitStatus, fnVars>>

OpaqueFieldStrings == {<<"d">>}
SampleFieldStrings == {<<"n">>, <<"5">>}
NumFieldStrings == {<<>>, <<"1">>, <<"2">>, <<"-">>, <<"-", "1">>, <<"x">>}

\* Candidate strings for field i of a line (1-based)
FieldChoices(i) ==
    IF i \in {3, 4} \/ i >= 7 THEN NumFieldStrings
    ELSE IF i = 6 THEN SampleFieldStrings
    ELSE OpaqueFieldStrings

RECURSIVE FieldLists(_)
FieldLists(n) ==
    IF n = 0 THEN {<<>>}
    ELSE {Append(r, f) : r \in FieldLists(n - 1), f \in FieldChoices(n)}

RECURSIVE Join(_)
Join(fields) ==
    IF Len(fields) = 1 THEN fields[1]
    ELSE fields[1] \o <<",">> \o Join(Tail(fields))

FileContents ==
    {<<>>} \cup
    {prev \o Join(fields) \o nl :
        prev \in {<<>>, RowA},
        fields \in UNION {FieldLists(n) : n \in 1..MaxFields},
        nl \in {<<>>, <<"\n">>}}

InitRead ==
    /\ pc = "read_exists"
    /\ rtl_power_process = "proc"
    /\ procState = "running"
    /\ csvExists \in BOOLEAN
    /\ csvContent \in (IF csvExists THEN FileContents ELSE {<<>>})
    /\ rowsWritten = MaxRows
    /\ spectrum_data \in {None, Sweep(1, 2, <<1>>)}
    /\ readView = NoView
    /\ img = NoFrame
    /\ savedFrame = NoFrame
    /\ pubLog = <<>>
    /\ sleeps = <<INITIAL_DELAY>>
    /\ running = FALSE
    /\ signals = 0
    /\ exitCause = "none"
    /\ exitStatus = 0 - 1
    /\ FnIdle

NextRead ==
    \/ ReadExists
    \/ ReadOpen
    \/ ExternalRemove

SpecRead == InitRead /\ [][NextRead]_vars

(* ---------------- the pure functions on their own ---------------- *)
MainIdle ==
    /\ pc = "function"
    /\ rtl_power_process = NoProcess
    /\ procState = "none"
    /\ csvExists = FALSE
    /\ csvContent = <<>>
    /\ rowsWritten = 0
    /\ spectrum_data = None
    /\ readView = NoView
    /\ img = NoFrame
    /\ savedFrame = NoFrame
    /\ pubLog = <<>>
    /\ sleeps = <<>>
    /\ running = FALSE
    /\ signals = 0
    /\ exitCause = "none"
    /\ exitStatus = 0 - 1

RECURSIVE ReadingLists(_)
ReadingLists(n) ==
    IF n = 0 THEN {<<>>}
    ELSE {Append(r, x) : r \in ReadingLists(n - 1), x \in (0 - MaxDb)..MaxDb}

InitNorm ==
    /\ MainIdle
    /\ normIn \in UNION {ReadingLists(n) : n \in 0..MaxReadings}
    /\ normOut = <<>>
    /\ gradIn = <<0, 1>>
    /\ gradOut = NoColor

Normalize ==
    /\ normOut = <<>>
    /\ normOut' = normalize_db_values(normIn)
    /\ UNCHANGED <<mainVars, normIn, gradIn, gradOut>>

NextNorm == Normalize

SpecNorm == InitNorm /\ [][NextNorm]_vars

GridDen == 10 * GridScale

InitGrad ==
    /\ MainIdle
    /\ normIn = <<>>
    /\ normOut = <<>>
    /\ gradIn \in {<<k, GridDen>> : k \in 0..GridDen}
    /\ gradOut = NoColor

Gradient ==
    /\ gradOut = NoColor
    /\ gradOut' = spectrum_color_gradient(gradIn)
    /\ UNCHANGED <<mainVars, normIn, normOut, gradIn>>

NextGrad == Gradient

SpecGrad == InitGrad /\ [][NextGrad]_vars

(* ---------------- properties ---------------- *)
\* C1: the process exits only as the result of a signal; no error at
\* startup or inside a tick terminates it.
C1_OnlySignalsExit == pc = "exited" => exitCause = "signal"

\* C2: once a signal has been delivered, at whatever control point, the
\* program has exited with status 0 because of it and runs no further tick.
C2_SignalAlwaysExits ==
    signals > 0 => (pc = "exited" /\ exitCause = "signal" /\ exitStatus = 0)

\* C3: when the program has exited through the signal handler, no capture
\* process that was launched is still running.
C3_NoCaptureLeftRunning ==
    (pc = "exited" /\ exitCause = "signal") => procState # "running"

\* The fields of the last line a read observed
ViewParts == Split(Strip(readView.line))

\* The states of the shared file for which C4 promises "no data"
NoDataCase ==
    \/ readView.seen \in {"absent", "vanished", "empty"}
    \/ /\ readView.seen = "read"
       /\ \/ Len(ViewParts) < 6
          \/ ~IsFloat(ViewParts[3])
          \/ ~IsFloat(ViewParts[4])
          \/ \E i \in 7..Len(ViewParts) : ~IsFloat(ViewParts[i])

\* C4: no exception escapes read_spectrum_data: control goes from the read
\* to rendering, never to the except clause of main, and for an absent,
\* vanished or empty file, a last line of fewer than 6 fields or one with a
\* non-numeric frequency or power field, the result is None.
C4_ReaderNeverRaises ==
    /\ pc \in {"read_exists", "read_open", "render"}
    /\ (pc = "render" /\ NoDataCase) => ~spectrum_data.present

C4_Witness ==
    /\ pc = "render"
    /\ readView.seen = "read"
    /\ Len(ViewParts) >= 7
    /\ IsFloat(ViewParts[3])
    /\ ~IsFloat(ViewParts[7])
    /\ ~spectrum_data.present

\* The observed last line is cut short of a row the capture process writes
Torn(line) ==
    \E k \in 1..MaxRows :
        /\ Len(line) < Len(CaptureRow(k)) - 1
        /\ line = SubSeq(CaptureRow(k), 1, Len(line))

\* C5: when the last line the reader observes is only a prefix of the row
\* being appended, the read returns no data.
C5_TornLineIsNoData ==
    (pc = "render" /\ readView.seen = "read" /\ Torn(readView.line))
        => ~spectrum_data.present

\* C6 as stated: every Sweep returned has a non-empty reading list and
\* freq_low <= freq_high.
C6_SweepNonEmptyOrdered ==
    (pc = "render" /\ spectrum_data.present)
        => /\ Len(spectrum_data.db_values) > 0
           /\ spectrum_data.freq_low <= spectrum_data.freq_high

\* C6 amended: every Sweep returned comes from a last line of at least 6
\* fields; its readings are exactly the fields from index 6 on (none when
\* the line has exactly 6 fields) and its bounds are fields 2 and 3 as
\* written, in whatever order.
C6_SweepMirrorsLine ==
    (pc = "render" /\ spectrum_data.present)
        => /\ readView.seen = "read"
           /\ Len(ViewParts) >= 6
           /\ Len(spectrum_data.db_values) = Len(ViewParts) - 6
           /\ spectrum_data.freq_low = ToFloat(ViewParts[3])
           /\ spectrum_data.freq_high = ToFloat(ViewParts[4])
           /\ \A i \in 1..(Len(ViewParts) - 6) :
                 spectrum_data.db_values[i] = ToFloat(ViewParts[6 + i])

C6_Witness ==
    /\ pc = "render"
    /\ spectrum_data.present
    /\ spectrum_data.db_values = <<>>
    /\ spectrum_data.freq_low > spectrum_data.freq_high

IsCall(c, key) == c.key = key /\ c.uri = "file://" \o WALLPAPER_PATH

\* C7 as stated: on every tick, once the frame is written, the wallpaper
\* mechanism has been invoked twice, for picture-uri and picture-uri-dark,
\* by the time the tick sleeps.
C7_InvokedTwiceEveryTick ==
    pc = "sleep_ok"
        => /\ Len(pubLog) = 2
           /\ IsCall(pubLog[1], "picture-uri")
           /\ IsCall(pubLog[2], "picture-uri-dark")

\* C7 amended: once the frame is written, picture-uri is set with the
\* file:// URI of the output path; picture-uri-dark is set with the same URI
\* exactly when the first invocation succeeded; a failure of either never
\* reaches the except clause of main nor ends the process.
C7_DarkOnlyAfterLight ==
    /\ pc = "sleep_ok"
         => /\ savedFrame = img
            /\ Len(pubLog) >= 1
            /\ IsCall(pubLog[1], "picture-uri")
            /\ pubLog[1].ok => (Len(pubLog) = 2 /\ IsCall(pubLog[2], "picture-uri-dark"))
            /\ ~pubLog[1].ok => Len(pubLog) = 1
    /\ pc = "sleep_err" => pubLog = <<>>
    /\ (pc = "exited" /\ running) => exitCause = "signal"

C7_Witness ==
    /\ pc = "sleep_ok"
    /\ Len(pubLog) = 1
    /\ ~pubLog[1].ok

\* C8: in the running loop every iteration, normal or failed, sleeps
\* exactly once, for UPDATE_INTERVAL, before the next read of the file.
C8_OneSleepPerIteration ==
    /\ Len(sleeps) <= 1
    /\ (pc = "read_exists" /\ running) => sleeps = <<UPDATE_INTERVAL>>

\* the next read is about to start after an iteration that raised
C8_Witness ==
    /\ pc = "read_exists"
    /\ running
    /\ pubLog = <<>>
    /\ sleeps = <<UPDATE_INTERVAL>>

IsMaxReading(i) == \A j \in 1..Len(normIn) : normIn[j] <= normIn[i]

IsMinReading(i) == \A j \in 1..Len(normIn) : normIn[j] >= normIn[i]

\* C9: for a non-empty list with unequal minimum and maximum the result
\* has the same length, every value is in [0,1], a maximum maps to 1 and a
\* minimum to 0; for all-equal readings every value is 0.5.
C9_Normalized ==
    normOut # <<>>
        => /\ Len(normOut) = Len(normIn)
           /\ \A i \in 1..Len(normOut) :
                LET n == normOut[i][1]
                    d == normOut[i][2] IN
                /\ d > 0
                /\ IF \A j \in 1..Len(normIn) : normIn[j] = normIn[1]
                   THEN 2 * n = d
                   ELSE /\ 0 <= n
                        /\ n <= d
                        /\ IsMaxReading(i) => n = d
                        /\ IsMinReading(i) => n = 0

C9_Witness ==
    /\ normOut # <<>>
    /\ Len(normIn) >= 2
    /\ normIn[1] < normIn[2]
    /\ normOut[1] = <<0, normIn[2] - normIn[1]>>
    /\ normOut[2][1] = normOut[2][2]

AbsDiff(a, b) == IF a >= b THEN a - b ELSE b - a

Boundaries == {3 * GridScale, 6 * GridScale, 8 * GridScale}

\* C10: for every value in [0,1] the three channels are integers in
\* [0,255]; gradient(0) = (0,0,0) and gradient(1) = (255,0,0); at 0.3, 0.6
\* and 0.8 the colour one grid step below differs from the colour at the
\* boundary by at most one unit per channel.
C10_Gradient ==
    gradOut # NoColor
        => /\ \A c \in 1..3 : gradOut[c] \in 0..255
           /\ gradIn[1] = 0 => gradOut = <<0, 0, 0>>
           /\ gradIn[1] = gradIn[2] => gradOut = <<255, 0, 0>>
           /\ gradIn[1] + 1 \in Boundaries
                => \A c \in 1..3 :
                     AbsDiff(gradOut[c],
                             spectrum_color_gradient(<<gradIn[1] + 1, gradIn[2]>>)[c]) <= 1

C10_Witness ==
    /\ gradIn[1] + 1 = 8 * GridScale
    /\ gradOut = <<254, 255, 0>>

====
